---- MODULE Spec2Model ----
(***************************************************************************)
(* WinShield: the scanner's bulletin merge index, supersedence expansion   *)
(* and missing/present diff (winshield_scanner.py) and the downloader's    *)
(* candidate scoring and selection (winshield_downloader.py).              *)
(*                                                                         *)
(* Three specifications share the variables below:                         *)
(*   SpecSup    compute_supersedence, step by step, then main's diff       *)
(*   SpecMerge  merge_kb_entries over adapter chunks, then normalisation   *)
(*   SpecSelect score_candidate / choose_best_candidate                    *)
(***************************************************************************)
EXTENDS Integers, Sequences, FiniteSets, TLC

VARIABLES
    pc,               \* position in the modelled function
    \* ---- winshield_scanner.py: compute_supersedence and main's diff
    kb_entries,       \* List[dict]: the bulletin records handed to the resolver
    installed_kbs,    \* Set[str]: the inventory's AllInstalledKbs
    supersedes_map,   \* Dict[str, Set[str]]: newer -> older
    logical_present,  \* Set[str]
    superseded_by,    \* Dict[str, Set[str]]
    superseded_by_out, \* Dict[str, List[str]]: the map compute_supersedence returns
    roots_left,       \* the part of "for root_installed in installed_kbs" still to run
    root_installed,   \* the current root
    stack,            \* the DFS stack of the current root
    seen,             \* the seen set of the current root
    present_sorted,   \* main: sorted(expected_kbs & logical_present_kbs)
    missing_sorted,   \* main: sorted(expected_kbs - logical_present_kbs)
    \* ---- winshield_scanner.py: merge index
    merged_kb_map,    \* Dict[str, dict], as the list of its values in insertion order
    chunks_done,      \* how many month chunks main's loop has been through
    \* ---- winshield_downloader.py: candidate selection
    constraints,      \* BaselineConstraints
    kb_id,            \* the target identifier
    candidates,       \* List[CatalogCandidate]
    cand_idx,         \* how many candidates "for cand in candidates" has been through
    scored,           \* List[Tuple[int, CatalogCandidate]]
    best,             \* first component of choose_best_candidate's result: <<>> is None
    reason,           \* second component of choose_best_candidate's result
    printed_reason,   \* downloader main: the reason line printed on a rejection
    printed_candidates, \* downloader main: the candidate lines printed on a rejection
    \* ---- winshield_scanner.py: build_month_ids_from_lcu and main's chunk loop
    baseline,         \* dict: IsAdmin, LcuMonthId, MsrcLatestMonthId
    max_months,       \* the cap
    now,              \* what datetime.now(UTC) returns: <<year, month, rest>>
    end,              \* datetime: <<year, month, rest>>, rest = 0 at 00:00:00 of day 1
    year,             \* build_month_ids_from_lcu's loop counters
    month,
    month_ids,        \* List[str]
    error,            \* the exception that left main: <<>> is none
    month_chunks,     \* List[List[str]]
    queried,          \* the chunks handed to the adapter so far, in order
    msrc_data,        \* the adapter's last answer: <<>> is none, else <<KbEntries>>
    exit_status       \* the process's exit status: <<>> while it runs

supVars == <<kb_entries, installed_kbs, supersedes_map, logical_present, superseded_by,
             superseded_by_out, roots_left, root_installed, stack, seen, present_sorted, missing_sorted>>
mergeVars == <<merged_kb_map, chunks_done>>
selVars == <<constraints, kb_id, candidates, cand_idx, scored, best, reason,
             printed_reason, printed_candidates>>
scanVars == <<baseline, max_months, now, end, year, month, month_ids, error, month_chunks,
              queried, msrc_data, exit_status>>
vars == <<pc, supVars, mergeVars, selVars, scanVars>>

\* Python's None
None == "None"

(***************************************************************************)
(* Strings.  TLC strings support Len, SubSeq and \o; characters are the    *)
(* one-character substrings.                                               *)
(***************************************************************************)

\* The characters the model's strings use, in code-point order.
Alphabet == " ()-.0123456789ABCDEFGHIJKLMNOPQRSTUVWXYZabcdefghijklmnopqrstuvwxyz"
UpperLetters == "ABCDEFGHIJKLMNOPQRSTUVWXYZ"
LowerLetters == "abcdefghijklmnopqrstuvwxyz"
Digits == "0123456789"

CharAt(s, i) == SubSeq(s, i, i)
IndexIn(c, s) == IF \E i \in 1..Len(s) : CharAt(s, i) = c
                 THEN CHOOSE i \in 1..Len(s) : CharAt(s, i) = c
                 ELSE 0

\* ord(c), as the position in Alphabet
OrdTable == [c \in {CharAt(Alphabet, i) : i \in 1..Len(Alphabet)} |-> IndexIn(c, Alphabet)]
Ord(c) == OrdTable[c]

\* a < b for Python str: lexicographic by code point; a proper prefix is smaller
StrLess(a, b) ==
    \E i \in 1..Len(b) :
        /\ i <= Len(a) + 1
        /\ SubSeq(a, 1, i - 1) = SubSeq(b, 1, i - 1)
        /\ \/ i = Len(a) + 1
           \/ Ord(CharAt(a, i)) < Ord(CharAt(b, i))

\* The strings the model sorts: identifiers, month identifiers, CVE identifiers (and
\* the architecture markers, to put them into titles in one order).
SortableStrings ==
    {"KB5031354", "KB5029351", "KB5026372", "kb5031354", "",
     "2024-Jan", "2024-Feb", "2024-Mar",
     "CVE-2024-0001", "CVE-2024-0002", "CVE-2024-0003",
     "x64-based ", "ARM64-based ", "x86-based ", "32-Bit "}

\* How many of the sortable strings are smaller, by StrLess.
RankTable == [s \in SortableStrings |-> Cardinality({t \in SortableStrings : StrLess(t, s)})]

\* sorted(S) for a set of strings: the i-th element has i-1 smaller ones
Sorted(S) ==
    [i \in 1..Cardinality(S) |->
        CHOOSE x \in S : Cardinality({y \in S : RankTable[y] < RankTable[x]}) = i - 1]

\* set(list)
Range(s) == {s[i] : i \in 1..Len(s)}

AlphabetChars == {CharAt(Alphabet, i) : i \in 1..Len(Alphabet)}

\* \d and \w of the regular expressions
DigitChars == {CharAt(Digits, i) : i \in 1..Len(Digits)}
WordChars == DigitChars \cup {CharAt(UpperLetters, i) : i \in 1..Len(UpperLetters)}
                        \cup {CharAt(LowerLetters, i) : i \in 1..Len(LowerLetters)}

\* str.upper(), str.lower(), character by character
UpperTable == [c \in AlphabetChars |->
                 IF IndexIn(c, LowerLetters) = 0 THEN c ELSE CharAt(UpperLetters, IndexIn(c, LowerLetters))]
LowerTable == [c \in AlphabetChars |->
                 IF IndexIn(c, UpperLetters) = 0 THEN c ELSE CharAt(LowerLetters, IndexIn(c, UpperLetters))]

RECURSIVE StrUpper(_)
StrUpper(s) ==
    IF Len(s) = 0 THEN "" ELSE UpperTable[CharAt(s, 1)] \o StrUpper(SubSeq(s, 2, Len(s)))

RECURSIVE StrLower(_)
StrLower(s) ==
    IF Len(s) = 0 THEN "" ELSE LowerTable[CharAt(s, 1)] \o StrLower(SubSeq(s, 2, Len(s)))

\* str.strip()
RECURSIVE StrStrip(_)
StrStrip(s) ==
    IF Len(s) = 0 THEN ""
    ELSE IF CharAt(s, 1) = " " THEN StrStrip(SubSeq(s, 2, Len(s)))
    ELSE IF CharAt(s, Len(s)) = " " THEN StrStrip(SubSeq(s, 1, Len(s) - 1))
    ELSE s

\* str.startswith(prefix)
StartsWith(s, prefix) == Len(prefix) <= Len(s) /\ SubSeq(s, 1, Len(prefix)) = prefix

\* needle in haystack (substring)
Contains(needle, hay) ==
    \E i \in 1..(Len(hay) - Len(needle) + 1) : SubSeq(hay, i, i + Len(needle) - 1) = needle

\* dict.get(key, default) for a dict modelled as a function
Get(d, key, default) == IF key \in DOMAIN d THEN d[key] ELSE default

\* the empty dict
EmptyDict == [k \in {} |-> {}]

\* all orders in which a set can be iterated
Orders(S) == {s \in [1..Cardinality(S) -> S] : \A i, j \in 1..Cardinality(S) : i # j => s[i] # s[j]}

(***************************************************************************)
(* Inputs of the supersedence resolver.                                    *)
(***************************************************************************)

\* Identifiers: the three a bulletin record can be keyed by or name as superseded, and
\* a lower-case spelling of the first, which only the inventory can report.
RecordKbs == {"KB5031354", "KB5029351", "KB5026372"}
KbIds == RecordKbs \cup {"kb5031354"}

MaxSupersedes == 2
MaxInstalled == 2

SmallSubsets(S, n) == {T \in SUBSET S : Cardinality(T) <= n}

\* The records main hands over: one per key, Supersedes already sorted and deduplicated.
\* A record may name as superseded an identifier that no record is keyed by.
EntryLists ==
    UNION {
        { [i \in 1..Cardinality(K) |-> [KB |-> Sorted(K)[i], Supersedes |-> Sorted(f[Sorted(K)[i]])]]
            : f \in [K -> SmallSubsets(RecordKbs, MaxSupersedes)] }
        : K \in SUBSET RecordKbs }

supIdle == /\ kb_entries = <<>> /\ installed_kbs = {} /\ supersedes_map = EmptyDict
           /\ logical_present = {} /\ superseded_by = EmptyDict
           /\ superseded_by_out = EmptyDict /\ roots_left = {}
           /\ root_installed = None /\ stack = <<>> /\ seen = {}
           /\ present_sorted = <<>> /\ missing_sorted = <<>>
mergeIdle == merged_kb_map = <<>> /\ chunks_done = 0
selIdle == /\ constraints = None /\ kb_id = None /\ candidates = <<>> /\ cand_idx = 0
           /\ scored = <<>> /\ best = <<>> /\ reason = None
           /\ printed_reason = None /\ printed_candidates = <<>>
scanIdle == /\ baseline = None /\ max_months = 0 /\ now = <<>> /\ end = <<>>
            /\ year = 0 /\ month = 0 /\ month_ids = <<>> /\ error = <<>>
            /\ month_chunks = <<>> /\ queried = <<>> /\ msrc_data = <<>>
            /\ exit_status = <<>>

(***************************************************************************)
(* compute_supersedence                                                    *)
(***************************************************************************)

\* lines 202-210: supersedes_map
BuildSupersedesMap(entries) ==
    LET withOld == {i \in 1..Len(entries) : entries[i].KB # "" /\ Len(entries[i].Supersedes) > 0}
        keys == {entries[i].KB : i \in withOld}
    IN [k \in keys |-> UNION {Range(entries[i].Supersedes) : i \in {j \in withOld : entries[j].KB = k}}]

\* A resolver that starts from the empty set instead of the installed set.
InitialLogicalPresentEmpty(installed) == {}

\* line 212: logical_present = set(installed_kbs)
InitialLogicalPresent(installed) == installed

\* lines 202-213
SupStart ==
    /\ pc = "sup_start"
    /\ supersedes_map' = BuildSupersedesMap(kb_entries)
    /\ logical_present' = InitialLogicalPresent(installed_kbs)
    /\ superseded_by' = EmptyDict
    /\ roots_left' = installed_kbs
    /\ pc' = "sup_roots"
    /\ UNCHANGED <<kb_entries, installed_kbs, superseded_by_out, root_installed, stack, seen,
                   present_sorted, missing_sorted, mergeVars, selVars, scanVars>>

\* lines 216-218: the next root of "for root_installed in installed_kbs"
SupNextRoot ==
    /\ pc = "sup_roots"
    /\ roots_left # {}
    /\ \E r \in roots_left :
        /\ root_installed' = r
        /\ roots_left' = roots_left \ {r}
        /\ stack' = <<r>>
        /\ seen' = {r}
    /\ pc' = "sup_dfs"
    /\ UNCHANGED <<kb_entries, installed_kbs, supersedes_map, logical_present, superseded_by,
                   superseded_by_out, present_sorted, missing_sorted, mergeVars, selVars, scanVars>>

\* An attribution that overwrites the roots recorded so far instead of adding to them.
AddSupersededByOverwrite(sb, olds, root) ==
    [k \in DOMAIN sb \cup olds |-> IF k \in olds THEN {root} ELSE sb[k]]

\* line 227: superseded_by.setdefault(old, set()).add(root)
AddSupersededBy(sb, olds, root) ==
    [k \in DOMAIN sb \cup olds |->
        IF k \in olds THEN Get(sb, k, {}) \cup {root} ELSE sb[k]]

\* An expansion that guards on the stack's content instead of the seen set.
RECURSIVE PushNotOnStack(_, _, _)
PushNotOnStack(order, st, sn) ==
    IF Len(order) = 0 THEN [stack |-> st, seen |-> sn]
    ELSE IF Head(order) \notin Range(st)
         THEN PushNotOnStack(Tail(order), Append(st, Head(order)), sn \cup {Head(order)})
         ELSE PushNotOnStack(Tail(order), st, sn)

\* An expansion that never continues past the root's direct supersedes.
PushNothing(order, st, sn) == [stack |-> st, seen |-> sn]

\* lines 229-231 for the olds in iteration order
RECURSIVE PushUnseen(_, _, _)
PushUnseen(order, st, sn) ==
    IF Len(order) = 0 THEN [stack |-> st, seen |-> sn]
    ELSE IF Head(order) \notin sn
         THEN PushUnseen(Tail(order), Append(st, Head(order)), sn \cup {Head(order)})
         ELSE PushUnseen(Tail(order), st, sn)

\* lines 221-231: one iteration of "while stack"
SupDfsStep ==
    /\ pc = "sup_dfs"
    /\ Len(stack) > 0
    /\ LET current == stack[Len(stack)]
           popped == SubSeq(stack, 1, Len(stack) - 1)
           olds == Get(supersedes_map, current, {})
       IN /\ logical_present' = logical_present \cup olds
          /\ superseded_by' = AddSupersededBy(superseded_by, olds, root_installed)
          /\ \E order \in Orders(olds) :
                LET r == PushUnseen(order, popped, seen)
                IN stack' = r.stack /\ seen' = r.seen
    /\ UNCHANGED <<pc, kb_entries, installed_kbs, supersedes_map, superseded_by_out,
                   roots_left, root_installed, present_sorted, missing_sorted,
                   mergeVars, selVars, scanVars>>

\* line 221: the stack is empty, back to the for loop
SupDfsEnd ==
    /\ pc = "sup_dfs"
    /\ Len(stack) = 0
    /\ pc' = "sup_roots"
    /\ UNCHANGED <<supVars, mergeVars, selVars, scanVars>>

\* line 234: return logical_present, {k: sorted(v) ...}
SupReturn ==
    /\ pc = "sup_roots"
    /\ roots_left = {}
    /\ superseded_by_out' = [k \in DOMAIN superseded_by |-> Sorted(superseded_by[k])]
    /\ pc' = "sup_returned"
    /\ UNCHANGED <<kb_entries, installed_kbs, supersedes_map, logical_present, superseded_by,
                   roots_left,
                   root_installed, stack, seen, present_sorted, missing_sorted,
                   mergeVars, selVars, scanVars>>

\* main, line 404
expected_kbs == {kb_entries[i].KB : i \in {j \in 1..Len(kb_entries) : kb_entries[j].KB # ""}}

\* main, line 412
PresentOf(expected, logical) == Sorted(expected \cap logical)

\* A diff that reports every expected identifier as missing.
MissingOfAllExpected(expected, logical) == Sorted(expected)

\* main, line 413
MissingOf(expected, logical) == Sorted(expected \ logical)

\* main, lines 412-413
Classify ==
    /\ pc = "sup_returned"
    /\ present_sorted' = PresentOf(expected_kbs, logical_present)
    /\ missing_sorted' = MissingOf(expected_kbs, logical_present)
    /\ pc' = "sup_done"
    /\ UNCHANGED <<kb_entries, installed_kbs, supersedes_map, logical_present, superseded_by,
                   superseded_by_out, roots_left, root_installed, stack, seen,
                   mergeVars, selVars, scanVars>>

InitSup ==
    /\ pc = "sup_start"
    /\ kb_entries \in EntryLists
    /\ installed_kbs \in SmallSubsets(KbIds, MaxInstalled)
    /\ supersedes_map = EmptyDict /\ logical_present = {} /\ superseded_by = EmptyDict
    /\ superseded_by_out = EmptyDict
    /\ roots_left = {} /\ root_installed = None /\ stack = <<>> /\ seen = {}
    /\ present_sorted = <<>> /\ missing_sorted = <<>>
    /\ mergeIdle /\ selIdle /\ scanIdle

NextSup == SupStart \/ SupNextRoot \/ SupDfsStep \/ SupDfsEnd \/ SupReturn \/ Classify

SpecSup == InitSup /\ [][NextSup]_vars

\* The resolver is one synchronous call: a step that can run does run.
FairSpecSup == SpecSup /\ WF_vars(NextSup)

(***************************************************************************)
(* merge_kb_entries, and main's chunk loop and normalisation               *)
(***************************************************************************)

MaxChunks == 2
MaxIncoming == 2

\* What the adapter can return for a chunk: records that repeat a value within one
\* list, list values out of order, share a key, have no key, hold an empty value or
\* spell a key in lower case.
EntryPool ==
    { [KB |-> "KB5031354", Months |-> <<"2024-Feb", "2024-Jan">>,
       Cves |-> <<"CVE-2024-0002">>, Supersedes |-> <<"KB5029351">>],
      [KB |-> "KB5031354", Months |-> <<"2024-Jan", "2024-Jan">>,
       Cves |-> <<"CVE-2024-0002", "CVE-2024-0001">>, Supersedes |-> <<"KB5026372", "KB5029351">>],
      [KB |-> "KB5029351", Months |-> <<"2024-Jan">>, Cves |-> <<>>, Supersedes |-> <<>>],
      [KB |-> "KB5029351", Months |-> <<"", "2024-Feb">>,
       Cves |-> <<"CVE-2024-0001", "CVE-2024-0001">>, Supersedes |-> <<"KB5026372", "KB5026372">>],
      [KB |-> "KB5026372", Months |-> <<"2024-Mar", "2024-Feb">>,
       Cves |-> <<"CVE-2024-0003">>, Supersedes |-> <<>>],
      [KB |-> "kb5031354", Months |-> <<"2024-Jan">>, Cves |-> <<>>, Supersedes |-> <<>>],
      [KB |-> "", Months |-> <<"2024-Mar">>, Cves |-> <<"CVE-2024-0003">>, Supersedes |-> <<>>] }

SeqsUpTo(S, n) == UNION {[1..k -> S] : k \in 0..n}

IncomingLists == SeqsUpTo(EntryPool, MaxIncoming)

\* The position of kb in the index, 0 when it has no entry.
IndexOf(existing, kb) ==
    IF \E i \in 1..Len(existing) : existing[i].KB = kb
    THEN CHOOSE i \in 1..Len(existing) : existing[i].KB = kb
    ELSE 0

Keys(existing) == {existing[i].KB : i \in 1..Len(existing)}

\* A merge that appends every non-empty value, present or not.
RECURSIVE MergeValuesAppendAll(_, _)
MergeValuesAppendAll(have, values) ==
    IF Len(values) = 0 THEN have
    ELSE IF Head(values) # ""
         THEN MergeValuesAppendAll(Append(have, Head(values)), Tail(values))
         ELSE MergeValuesAppendAll(have, Tail(values))

\* lines 179-181 (and 184-186, 189-191): append each non-empty value not yet in the list
RECURSIVE MergeValues(_, _)
MergeValues(have, values) ==
    IF Len(values) = 0 THEN have
    ELSE IF Head(values) # "" /\ Head(values) \notin Range(have)
         THEN MergeValues(Append(have, Head(values)), Tail(values))
         ELSE MergeValues(have, Tail(values))

\* lines 170-176: the entry a key gets when it is first seen
NewEntry(kb) == [KB |-> kb, Months |-> <<>>, Cves |-> <<>>, Supersedes |-> <<>>]

\* A merge that creates the entry of a key it sees for the first time and leaves that
\* record's values out.
MergeEntryCreateOnly(existing, entry) ==
    IF entry.KB = "" THEN existing
    ELSE IF IndexOf(existing, entry.KB) = 0 THEN Append(existing, NewEntry(entry.KB))
    ELSE LET i == IndexOf(existing, entry.KB)
         IN [existing EXCEPT ![i] =
                [KB |-> @.KB,
                 Months |-> MergeValues(@.Months, entry.Months),
                 Cves |-> MergeValues(@.Cves, entry.Cves),
                 Supersedes |-> MergeValues(@.Supersedes, entry.Supersedes)]]

\* lines 164-191: one iteration of "for entry in incoming"
MergeEntry(existing, entry) ==
    IF entry.KB = "" THEN existing
    ELSE LET with == IF IndexOf(existing, entry.KB) = 0
                     THEN Append(existing, NewEntry(entry.KB))
                     ELSE existing
             i == IndexOf(with, entry.KB)
         IN [with EXCEPT ![i] =
                [KB |-> @.KB,
                 Months |-> MergeValues(@.Months, entry.Months),
                 Cves |-> MergeValues(@.Cves, entry.Cves),
                 Supersedes |-> MergeValues(@.Supersedes, entry.Supersedes)]]

\* lines 158-191
RECURSIVE merge_kb_entries(_, _)
merge_kb_entries(existing, incoming) ==
    IF Len(incoming) = 0 THEN existing
    ELSE merge_kb_entries(MergeEntry(existing, Head(incoming)), Tail(incoming))

\* lines 396-402: sorted(set(...)) of the three collections, then the classification
NormaliseEntry(e) ==
    [KB |-> e.KB,
     Months |-> Sorted(Range(e.Months)),
     Cves |-> Sorted(Range(e.Cves)),
     Supersedes |-> Sorted(Range(e.Supersedes)),
     UpdateType |-> IF Range(e.Supersedes) # {} THEN "Superseding" ELSE "Standalone"]

Normalise(index) == [i \in 1..Len(index) |-> NormaliseEntry(index[i])]

\* main, lines 367-384: one chunk; an empty adapter answer is skipped
MergeChunk ==
    /\ pc = "merge_loop"
    /\ chunks_done < MaxChunks
    /\ \E adapter_entries \in IncomingLists :
          merged_kb_map' = IF Len(adapter_entries) = 0
                           THEN merged_kb_map
                           ELSE merge_kb_entries(merged_kb_map, adapter_entries)
    /\ chunks_done' = chunks_done + 1
    /\ UNCHANGED <<pc, supVars, selVars, scanVars>>

\* main, lines 386-388: nothing merged, the scan stops
NoKbsExit ==
    /\ pc = "merge_loop"
    /\ Len(merged_kb_map) = 0
    /\ pc' = "scan_exit"
    /\ UNCHANGED <<supVars, mergeVars, selVars, scanVars>>

\* main, lines 390-402: kb_entries holds the index's own records, normalised in place
NormaliseIndex ==
    /\ pc = "merge_loop"
    /\ Len(merged_kb_map) > 0
    /\ merged_kb_map' = Normalise(merged_kb_map)
    /\ kb_entries' = Normalise(merged_kb_map)
    /\ pc' = "normalised"
    /\ UNCHANGED <<installed_kbs, supersedes_map, logical_present, superseded_by,
                   superseded_by_out, roots_left, root_installed, stack, seen,
                   present_sorted, missing_sorted, chunks_done, selVars, scanVars>>

InitMerge ==
    /\ pc = "merge_loop"
    /\ merged_kb_map = <<>>
    /\ chunks_done = 0
    /\ supIdle /\ selIdle /\ scanIdle

NextMerge == MergeChunk \/ NoKbsExit \/ NormaliseIndex

SpecMerge == InitMerge /\ [][NextMerge]_vars

(***************************************************************************)
(* build_month_ids_from_lcu, chunk_list and main's adapter loop            *)
(***************************************************************************)

\* A value baseline.get() gives that "if not value" takes as absent.
Falsy(value) == value = None \/ value = ""

\* The month abbreviations of %b.
MonthNames == <<"Jan", "Feb", "Mar", "Apr", "May", "Jun",
                "Jul", "Aug", "Sep", "Oct", "Nov", "Dec">>

DigitValue == [c \in DigitChars |-> IndexIn(c, Digits) - 1]

\* int() of a string of digits
RECURSIVE ParseInt(_)
ParseInt(s) ==
    IF Len(s) = 0 THEN 0
    ELSE 10 * ParseInt(SubSeq(s, 1, Len(s) - 1)) + DigitValue[CharAt(s, Len(s))]

\* datetime.strptime(s, "%Y-%b").replace(day=1, tzinfo=UTC): four digits of year, a
\* hyphen, the month abbreviation in any letter case; midnight of day 1.
strptime(s) ==
    <<ParseInt(SubSeq(s, 1, 4)),
      CHOOSE m \in 1..12 : StrLower(MonthNames[m]) = StrLower(SubSeq(s, 6, Len(s))),
      0>>

\* %Y of a year of up to four digits
FormatYear(y) ==
    CharAt(Digits, ((y \div 1000) % 10) + 1) \o CharAt(Digits, ((y \div 100) % 10) + 1)
        \o CharAt(Digits, ((y \div 10) % 10) + 1) \o CharAt(Digits, (y % 10) + 1)

\* current.strftime("%Y-%b")
strftime(dt) == FormatYear(dt[1]) \o "-" \o MonthNames[dt[2]]

\* a > b for two datetimes
DtAfter(a, b) ==
    \/ a[1] > b[1]
    \/ a[1] = b[1] /\ a[2] > b[2]
    \/ a[1] = b[1] /\ a[2] = b[2] /\ a[3] > b[3]

\* lines 92-98: the exception the preconditions raise for a baseline, <<>> when none
MonthsFailure(b) ==
    IF ~b.IsAdmin
    THEN <<[type |-> "RuntimeError",
            message |-> "Baseline collected without administrative privileges. LCU detection requires elevation."]>>
    ELSE IF Falsy(b.LcuMonthId)
    THEN <<[type |-> "RuntimeError", message |-> "Baseline did not provide LcuMonthId."]>>
    ELSE <<>>

\* lines 101-105: MsrcLatestMonthId, else the current month with the clock's time of day
EndOf(b, clock) ==
    IF ~Falsy(b.MsrcLatestMonthId) THEN strptime(b.MsrcLatestMonthId) ELSE clock

\* lines 108-112: the start, pulled back to the end when it is after it
StartOf(b, clock) ==
    LET start == strptime(b.LcuMonthId)
    IN IF DtAfter(start, EndOf(b, clock)) THEN EndOf(b, clock) ELSE start

\* lines 92-98: a precondition fails; the exception leaves main (line 349) uncaught
MonthsRaise ==
    /\ pc = "months_start"
    /\ MonthsFailure(baseline) # <<>>
    /\ error' = MonthsFailure(baseline)
    /\ exit_status' = <<1>>
    /\ pc' = "months_failed"
    /\ UNCHANGED <<baseline, max_months, now, end, year, month, month_ids, month_chunks,
                   queried, msrc_data, supVars, mergeVars, selVars>>

\* lines 101-119
MonthsBegin ==
    /\ pc = "months_start"
    /\ MonthsFailure(baseline) = <<>>
    /\ end' = EndOf(baseline, now)
    /\ year' = StartOf(baseline, now)[1]
    /\ month' = StartOf(baseline, now)[2]
    /\ month_ids' = <<>>
    /\ pc' = "months_loop"
    /\ UNCHANGED <<baseline, max_months, now, error, month_chunks, queried, msrc_data,
                   exit_status, supVars, mergeVars, selVars>>

\* A loop exit that tests the cap with > instead of >=.
CapReachedLate(count, cap) == count > cap

\* line 131: len(month_ids) >= max_months
CapReached(count, cap) == count >= cap

\* lines 122-138: one iteration of "while True"
MonthsIterate ==
    /\ pc = "months_loop"
    /\ LET current == <<year, month, 0>>
       IN IF DtAfter(current, end)
          THEN /\ pc' = "months_returned"
               /\ UNCHANGED <<month_ids, year, month>>
          ELSE /\ month_ids' = Append(month_ids, strftime(current))
               /\ IF current = end \/ CapReached(Len(month_ids) + 1, max_months)
                  THEN pc' = "months_returned" /\ UNCHANGED <<year, month>>
                  ELSE /\ pc' = "months_loop"
                       /\ month' = IF month + 1 = 13 THEN 1 ELSE month + 1
                       /\ year' = IF month + 1 = 13 THEN year + 1 ELSE year
    /\ UNCHANGED <<baseline, max_months, now, end, error, month_chunks, queried, msrc_data,
                   exit_status, supVars, mergeVars, selVars>>

\* main, line 358
chunk_size == 3

\* A chunking that leaves out a trailing chunk shorter than chunk_size.
chunk_list_full_only(items, size) ==
    [k \in 1..(Len(items) \div size) |-> SubSeq(items, (k - 1) * size + 1, k * size)]

Min(a, b) == IF a < b THEN a ELSE b

\* lines 144-151: items[i:i + chunk_size] for i in range(0, len(items), chunk_size)
chunk_list(items, size) ==
    [k \in 1..((Len(items) + size - 1) \div size) |->
        SubSeq(items, (k - 1) * size + 1, Min(k * size, Len(items)))]

\* main, lines 358-365
ChunkMonths ==
    /\ pc = "months_returned"
    /\ month_chunks' = chunk_list(month_ids, chunk_size)
    /\ merged_kb_map' = <<>>
    /\ pc' = "scan_loop"
    /\ UNCHANGED <<baseline, max_months, now, end, year, month, month_ids, error, queried,
                   msrc_data, exit_status, chunks_done, supVars, selVars>>

\* What the adapter answers for a chunk: no records, one record, or records that
\* share a key and one without a key.
AdapterAnswers ==
    { <<>>,
      << [KB |-> "KB5029351", Months |-> <<"2024-Jan">>, Cves |-> <<>>, Supersedes |-> <<>>] >>,
      << [KB |-> "KB5031354", Months |-> <<"2024-Feb", "2024-Jan">>,
          Cves |-> <<"CVE-2024-0002">>, Supersedes |-> <<"KB5029351">>],
         [KB |-> "", Months |-> <<"2024-Mar">>, Cves |-> <<"CVE-2024-0003">>, Supersedes |-> <<>>],
         [KB |-> "KB5031354", Months |-> <<"2024-Jan", "2024-Jan">>,
          Cves |-> <<"CVE-2024-0002", "CVE-2024-0001">>, Supersedes |-> <<"KB5026372">>] >> }

\* main, lines 367-384: one iteration of "for idx, chunk in enumerate(month_chunks)"
\* whose adapter call returns
ScanChunk ==
    /\ pc = "scan_loop"
    /\ chunks_done < Len(month_chunks)
    /\ \E adapter_entries \in AdapterAnswers :
          /\ msrc_data' = <<adapter_entries>>
          /\ merged_kb_map' = IF Len(adapter_entries) = 0
                              THEN merged_kb_map
                              ELSE merge_kb_entries(merged_kb_map, adapter_entries)
    /\ queried' = Append(queried, month_chunks[chunks_done + 1])
    /\ chunks_done' = chunks_done + 1
    /\ UNCHANGED <<pc, baseline, max_months, now, end, year, month, month_ids, error,
                   month_chunks, exit_status, supVars, selVars>>

\* lines 67-80 under line 371: the adapter fails, returns nothing or returns no JSON;
\* run_powershell_script raises and the exception leaves main uncaught
ScanAdapterRaises ==
    /\ pc = "scan_loop"
    /\ chunks_done < Len(month_chunks)
    /\ queried' = Append(queried, month_chunks[chunks_done + 1])
    /\ msrc_data' = <<>>
    /\ \E message \in {"winshield_adapter.ps1 failed",
                       "winshield_adapter.ps1 returned no output",
                       "winshield_adapter.ps1 returned invalid JSON"} :
          error' = <<[type |-> "RuntimeError", message |-> message]>>
    /\ exit_status' = <<1>>
    /\ pc' = "scan_failed"
    /\ UNCHANGED <<baseline, max_months, now, end, year, month, month_ids, month_chunks,
                   supVars, mergeVars, selVars>>

\* main, lines 386-388: nothing merged; the message is printed and sys.exit(0) called
ScanNoKbs ==
    /\ pc = "scan_loop"
    /\ chunks_done = Len(month_chunks)
    /\ Len(merged_kb_map) = 0
    /\ exit_status' = <<0>>
    /\ pc' = "scan_exit"
    /\ UNCHANGED <<baseline, max_months, now, end, year, month, month_ids, error,
                   month_chunks, queried, msrc_data, supVars, mergeVars, selVars>>

\* main, lines 390-472 and line 476: the index is normalised, classified and saved;
\* main returns None and the process ends with status 0
ScanComplete ==
    /\ pc = "scan_loop"
    /\ chunks_done = Len(month_chunks)
    /\ Len(merged_kb_map) > 0
    /\ merged_kb_map' = Normalise(merged_kb_map)
    /\ exit_status' = <<0>>
    /\ pc' = "scan_saved"
    /\ UNCHANGED <<baseline, max_months, now, end, year, month, month_ids, error,
                   month_chunks, queried, msrc_data, chunks_done, supVars, selVars>>

\* The largest cap the checked calls pass (the default, 48, is the same code path).
MaxMonthsCap == 7

\* Baselines as winshield_baseline.ps1 can report them.
Baselines ==
    [IsAdmin : BOOLEAN,
     LcuMonthId : {None, "", "2023-Aug", "2023-Nov", "2023-dec", "2024-Jan", "2024-Feb",
                   "2024-Apr"},
     MsrcLatestMonthId : {None, "2023-Dec", "2024-Mar"}]

\* The clock, already at day 1: exactly midnight, or any later time of that day.
Clocks == {<<2024, 2, 0>>, <<2024, 2, 1>>}

InitScan ==
    /\ pc = "months_start"
    /\ baseline \in Baselines
    /\ max_months \in 1..MaxMonthsCap
    /\ now \in Clocks
    /\ end = <<>> /\ year = 0 /\ month = 0 /\ month_ids = <<>> /\ error = <<>>
    /\ month_chunks = <<>> /\ queried = <<>> /\ msrc_data = <<>> /\ exit_status = <<>>
    /\ supIdle /\ mergeIdle /\ selIdle

NextScan ==
    \/ MonthsRaise \/ MonthsBegin \/ MonthsIterate \/ ChunkMonths
    \/ ScanChunk \/ ScanAdapterRaises \/ ScanNoKbs \/ ScanComplete

SpecScan == InitScan /\ [][NextScan]_vars

(***************************************************************************)
(* score_candidate and choose_best_candidate                               *)
(***************************************************************************)

HardReject == -10000
MinConfidence == 90

IsDigit(c) == c \in DigitChars
IsWordChar(c) == c \in WordChars

\* re.search(r"\b\d{2}h[12]\b", t)
HasHalfYearToken(t) ==
    \E i \in 1..(Len(t) - 3) :
        /\ IsDigit(CharAt(t, i)) /\ IsDigit(CharAt(t, i + 1))
        /\ CharAt(t, i + 2) = "h"
        /\ CharAt(t, i + 3) \in {"1", "2"}
        /\ (i = 1 \/ ~IsWordChar(CharAt(t, i - 1)))
        /\ (i + 3 = Len(t) \/ ~IsWordChar(CharAt(t, i + 4)))

\* Where r"\(\s*(\d{5})\." matches with "(" at i: the position of its first digit, else 0.
RECURSIVE SkipSpaces(_, _)
SkipSpaces(t, j) == IF j <= Len(t) /\ CharAt(t, j) = " " THEN SkipSpaces(t, j + 1) ELSE j

BuildMatchAt(t, i) ==
    IF CharAt(t, i) # "(" THEN 0
    ELSE LET j == SkipSpaces(t, i + 1)
         IN IF /\ j + 5 <= Len(t)
               /\ \A k \in j..(j + 4) : IsDigit(CharAt(t, k))
               /\ CharAt(t, j + 5) = "."
            THEN j ELSE 0

\* re.search(r"\(\s*(\d{5})\.", t): group 1 of the leftmost match, "" when none
BuildGroup(t) ==
    LET hits == {i \in 1..Len(t) : BuildMatchAt(t, i) # 0}
    IN IF hits = {} THEN ""
       ELSE LET first == CHOOSE i \in hits : \A k \in hits : i <= k
                j == BuildMatchAt(t, first)
            IN SubSeq(t, j, j + 4)

\* An architecture rule whose 64-bit Intel/AMD branch forgets the "32-bit" marker.
ArchPointsNo32Bit(arch, t) ==
    IF arch = "x64"
    THEN IF Contains("arm64-based", t) \/ Contains("x86-based", t)
         THEN HardReject
         ELSE IF Contains("x64-based", t) THEN 25 ELSE 0
    ELSE IF arch = "arm64"
    THEN IF Contains("x64-based", t) \/ Contains("x86-based", t) \/ Contains("32-bit", t)
         THEN HardReject
         ELSE IF Contains("arm64-based", t) THEN 25 ELSE 0
    ELSE IF arch = "x86"
    THEN IF Contains("x64-based", t) \/ Contains("arm64-based", t)
         THEN HardReject
         ELSE IF Contains("x86-based", t) \/ Contains("32-bit", t) THEN 25 ELSE 0
    ELSE 0

\* An architecture rule whose x86 branch rewards only "x86-based", not "32-bit".
ArchPointsX86NoBitBonus(arch, t) ==
    IF arch = "x64"
    THEN IF Contains("arm64-based", t) \/ Contains("x86-based", t) \/ Contains("32-bit", t)
         THEN HardReject
         ELSE IF Contains("x64-based", t) THEN 25 ELSE 0
    ELSE IF arch = "arm64"
    THEN IF Contains("x64-based", t) \/ Contains("x86-based", t) \/ Contains("32-bit", t)
         THEN HardReject
         ELSE IF Contains("arm64-based", t) THEN 25 ELSE 0
    ELSE IF arch = "x86"
    THEN IF Contains("x64-based", t) \/ Contains("arm64-based", t)
         THEN HardReject
         ELSE IF Contains("x86-based", t) THEN 25 ELSE 0
    ELSE 0

\* lines 263-280: the architecture rule; HardReject, or the points it adds
ArchPoints(arch, t) ==
    IF arch = "x64"
    THEN IF Contains("arm64-based", t) \/ Contains("x86-based", t) \/ Contains("32-bit", t)
         THEN HardReject
         ELSE IF Contains("x64-based", t) THEN 25 ELSE 0
    ELSE IF arch = "arm64"
    THEN IF Contains("x64-based", t) \/ Contains("x86-based", t) \/ Contains("32-bit", t)
         THEN HardReject
         ELSE IF Contains("arm64-based", t) THEN 25 ELSE 0
    ELSE IF arch = "x86"
    THEN IF Contains("x64-based", t) \/ Contains("arm64-based", t)
         THEN HardReject
         ELSE IF Contains("x86-based", t) \/ Contains("32-bit", t) THEN 25 ELSE 0
    ELSE 0

\* lines 282-289: the display version rule
DisplayVersionPoints(display_version, t) ==
    LET dv == StrStrip(StrLower(display_version))
    IN IF dv = "" THEN 0
       ELSE (IF Contains(dv, t) THEN 25 ELSE 0)
            + (IF HasHalfYearToken(t) /\ ~Contains(dv, t) THEN -15 ELSE 0)

\* lines 291-295: the build rule
BuildPoints(build_major, t) ==
    IF build_major = "" THEN 0
    ELSE LET group == BuildGroup(t)
         IN IF group = "" THEN 0
            ELSE IF group = build_major THEN 10 ELSE -5

\* A generation rule that accepts the baseline's own tag before it looks for the
\* other generation's.
GenerationPointsOwnTagFirst(gen, t) ==
    IF gen = "" THEN 0
    ELSE IF Contains(gen, t) THEN 40
    ELSE IF gen = "windows 10" /\ Contains("windows 11", t) THEN HardReject
    ELSE IF gen = "windows 11" /\ Contains("windows 10", t) THEN HardReject
    ELSE 0

\* lines 251-257: HardReject, or the points for the generation tag
GenerationPoints(gen, t) ==
    IF gen = "" THEN 0
    ELSE IF gen = "windows 10" /\ Contains("windows 11", t) THEN HardReject
    ELSE IF gen = "windows 11" /\ Contains("windows 10", t) THEN HardReject
    ELSE IF Contains(gen, t) THEN 40
    ELSE 0

\* lines 239-297
score_candidate(candidate, kb, c) ==
    LET t == StrLower(candidate.title)
        generation == GenerationPoints(c.windows_gen, t)
        architecture == ArchPoints(c.catalog_arch, t)
    IN IF ~Contains(StrLower(kb), t) THEN HardReject
       ELSE IF generation = HardReject THEN HardReject
       ELSE IF StartsWith(c.windows_gen, "windows ") /\ Contains("server", t) THEN HardReject
       ELSE IF architecture = HardReject THEN HardReject
       ELSE 50
            + generation
            + architecture
            + DisplayVersionPoints(c.display_version, t)
            + BuildPoints(c.build_major, t)

\* A sort that leaves out reverse=True.
SortByScoreAsc(list) ==
    LET pos(i) == 1 + Cardinality({j \in 1..Len(list) : list[j][1] < list[i][1]})
                    + Cardinality({j \in 1..(i - 1) : list[j][1] = list[i][1]})
    IN [p \in 1..Len(list) |-> list[CHOOSE i \in 1..Len(list) : pos(i) = p]]

\* A descending sort that puts the later of two equal scores first.
SortByScoreDescLastSeen(list) ==
    LET pos(i) == 1 + Cardinality({j \in 1..Len(list) : list[j][1] > list[i][1]})
                    + Cardinality({j \in (i + 1)..Len(list) : list[j][1] = list[i][1]})
    IN [p \in 1..Len(list) |-> list[CHOOSE i \in 1..Len(list) : pos(i) = p]]

\* line 312: scored.sort(key=lambda x: x[0], reverse=True), a stable sort
SortByScoreDesc(list) ==
    LET pos(i) == 1 + Cardinality({j \in 1..Len(list) : list[j][1] > list[i][1]})
                    + Cardinality({j \in 1..(i - 1) : list[j][1] = list[i][1]})
    IN [p \in 1..Len(list) |-> list[CHOOSE i \in 1..Len(list) : pos(i) = p]]

\* lines 304-307: one iteration of "for cand in candidates"
SelScoreNext ==
    /\ pc = "sel_score"
    /\ cand_idx < Len(candidates)
    /\ LET cand == candidates[cand_idx + 1]
           s == score_candidate(cand, kb_id, constraints)
       IN scored' = IF s >= 0 THEN Append(scored, <<s, cand>>) ELSE scored
    /\ cand_idx' = cand_idx + 1
    /\ UNCHANGED <<pc, constraints, kb_id, candidates, best, reason, printed_reason,
                   printed_candidates, supVars, mergeVars, scanVars>>

\* lines 309-310
SelNoMatch ==
    /\ pc = "sel_score"
    /\ cand_idx = Len(candidates)
    /\ Len(scored) = 0
    /\ best' = <<>>
    /\ reason' = "No candidate matched baseline constraints."
    /\ pc' = "sel_done"
    /\ UNCHANGED <<constraints, kb_id, candidates, cand_idx, scored, printed_reason,
                   printed_candidates, supVars, mergeVars, scanVars>>

\* line 312
SelSort ==
    /\ pc = "sel_score"
    /\ cand_idx = Len(candidates)
    /\ Len(scored) > 0
    /\ scored' = SortByScoreDesc(scored)
    /\ pc' = "sel_gate"
    /\ UNCHANGED <<constraints, kb_id, candidates, cand_idx, best, reason, printed_reason,
                   printed_candidates, supVars, mergeVars, scanVars>>

\* lines 313-317: the best score is below the threshold
SelAmbiguous ==
    /\ pc = "sel_gate"
    /\ scored[1][1] < MinConfidence
    /\ best' = <<>>
    /\ reason' = "Ambiguous match (best score " \o ToString(scored[1][1]) \o " below threshold)."
    /\ pc' = "sel_done"
    /\ UNCHANGED <<constraints, kb_id, candidates, cand_idx, scored, printed_reason,
                   printed_candidates, supVars, mergeVars, scanVars>>

\* lines 313-319: the best candidate is returned
SelSelect ==
    /\ pc = "sel_gate"
    /\ ~(scored[1][1] < MinConfidence)
    /\ best' = <<scored[1][2]>>
    /\ reason' = None
    /\ pc' = "sel_done"
    /\ UNCHANGED <<constraints, kb_id, candidates, cand_idx, scored, printed_reason,
                   printed_candidates, supVars, mergeVars, scanVars>>

\* downloader main, lines 431-436: on a rejection the reason is printed, then one
\* line per candidate of the search result, in the order of the search result:
\* f"  {idx}) {cand.title} (UpdateID: {cand.update_id})"
CandidateLine(idx, cand) == [idx |-> idx, title |-> cand.title, update_id |-> cand.update_id]

SelReportRejection ==
    /\ pc = "sel_done"
    /\ best = <<>>
    /\ printed_reason' = reason
    /\ printed_candidates' = [i \in 1..Len(candidates) |-> CandidateLine(i, candidates[i])]
    /\ pc' = "sel_rejected"
    /\ UNCHANGED <<constraints, kb_id, candidates, cand_idx, scored, best, reason,
                   supVars, mergeVars, scanVars>>

\* BaselineConstraints as build_constraints (lines 105-138) produces them.
ConstraintSet ==
    [windows_gen : {"windows 10", "windows 11", ""},
     display_version : {"23H2", ""},
     build_major : {"22631", ""},
     catalog_arch : {"x64", "arm64", "x86"}]

\* Catalog titles, assembled from the parts the scoring rules look at.
GenParts == {"", "Windows 10 ", "Windows 11 ", "Windows 10 and Windows 11 "}
ServerParts == {"", "Server "}
VersionParts == {"", "Version 23H2 ", "Version 22H2 "}
ArchMarkers == {"x64-based ", "ARM64-based ", "x86-based ", "32-Bit "}
KbParts == {"(KB5031354)"}
BuildParts == {"", " (22631.2428)", " (19045.3570)"}

JoinMarkers(M) == LET o == Sorted(M) IN IF Len(o) = 0 THEN "" ELSE IF Len(o) = 1 THEN o[1] ELSE o[1] \o o[2]

ArchParts == {JoinMarkers(M) : M \in SmallSubsets(ArchMarkers, 2)}

Title(g, sv, v, a, k, b) == "Update for " \o g \o sv \o v \o a \o k \o b

AllTitles ==
    {Title(g, sv, v, a, k, b) :
        g \in GenParts, sv \in ServerParts, v \in VersionParts,
        a \in ArchParts, k \in KbParts, b \in BuildParts}

\* The titles candidate lists of more than one candidate are drawn from.
ListTitles ==
    {Title("Windows 11 ", "", "Version 23H2 ", "x64-based ", "(KB5031354)", " (22631.2428)"),
     Title("Windows 11 ", "", "Version 23H2 ", "ARM64-based ", "(KB5031354)", ""),
     Title("Windows 11 ", "", "", "", "(KB5031354)", ""),
     Title("Windows 11 ", "", "Version 22H2 ", "", "(KB5031354)", " (19045.3570)"),
     Title("", "", "Version 23H2 ", "x64-based ", "(KB5031354)", ""),
     Title("Windows 10 ", "", "Version 22H2 ", "x86-based ", "(KB5029351)", "")}

MaxCandidates == 2

\* parse_search_candidates gives every row its own update_id.
UpdateIds == <<"id-1", "id-2", "id-3", "id-4">>
CandidatesOf(titles) == [i \in 1..Len(titles) |-> [update_id |-> UpdateIds[i], title |-> titles[i]]]

CandidateLists ==
    {CandidatesOf(ts) : ts \in SeqsUpTo(ListTitles, MaxCandidates) \cup {<<t>> : t \in AllTitles}}

InitSelect ==
    /\ pc = "sel_score"
    /\ constraints \in ConstraintSet
    /\ kb_id = "KB5031354"
    /\ candidates \in CandidateLists
    /\ cand_idx = 0
    /\ scored = <<>>
    /\ best = <<>>
    /\ reason = None
    /\ printed_reason = None /\ printed_candidates = <<>>
    /\ supIdle /\ mergeIdle /\ scanIdle

NextSelect ==
    SelScoreNext \/ SelNoMatch \/ SelSort \/ SelAmbiguous \/ SelSelect \/ SelReportRejection

SpecSelect == InitSelect /\ [][NextSelect]_vars

(***************************************************************************)
(* Properties of compute_supersedence                                      *)
(***************************************************************************)

\* The supersedes relation as the records state it: a -> b.
Supersedes(a, b) ==
    \E i \in 1..Len(kb_entries) :
        kb_entries[i].KB # "" /\ kb_entries[i].KB = a /\ b \in Range(kb_entries[i].Supersedes)

\* The identifiers one supersedes edge away from a set S.
OneStep(S) == {b \in KbIds : \E a \in S : Supersedes(a, b)}

RECURSIVE Closure(_)
Closure(S) == IF OneStep(S) \subseteq S THEN S ELSE Closure(S \cup OneStep(S))

\* The identifiers reachable from r by one or more supersedes edges.
ReachableFrom(r) == Closure(OneStep({r}))

Returned == pc \in {"sup_returned", "sup_done"}

IsCyclic == \E a \in KbIds : a \in ReachableFrom(a)

\* The roots compute_supersedence lists for k in its returned map.
ListedRoots(k) == Range(Get(superseded_by_out, k, <<>>))

\* C1: the logically-present set compute_supersedence returns contains every
\* installed identifier, whatever the supersedes relation (empty, cyclic, or
\* mentioning identifiers no record is keyed by).
C1_InstalledSubsetOfLogicalPresent ==
    Returned => installed_kbs \subseteq logical_present

\* C1 witness: a cyclic relation that mentions an identifier no record is keyed by,
\* a non-empty installed set, and a result that holds more than the installed set.
C1_Witness ==
    /\ Returned
    /\ installed_kbs # {}
    /\ IsCyclic
    /\ \E a \in KbIds : \E b \in KbIds \ expected_kbs : Supersedes(a, b)
    /\ logical_present # installed_kbs

\* C2: in the returned map an installed root r is listed for k exactly when k is
\* reachable from r by one or more supersedes edges (all reachable roots, not the
\* immediate parent).
C2_AllReachableRootsAttribution ==
    Returned =>
        /\ \A k \in KbIds : \A r \in installed_kbs :
              (r \in ListedRoots(k)) <=> (k \in ReachableFrom(r))
        /\ \A k \in DOMAIN superseded_by_out : ListedRoots(k) \subseteq installed_kbs

\* C2 witness: the chain KB5031354 -> KB5029351 -> KB5026372 with KB5031354 installed;
\* both older identifiers are attributed to the root.
C2_Witness ==
    /\ Returned
    /\ installed_kbs = {"KB5031354"}
    /\ Supersedes("KB5031354", "KB5029351") /\ Supersedes("KB5029351", "KB5026372")
    /\ ~Supersedes("KB5031354", "KB5026372")
    /\ Get(superseded_by_out, "KB5029351", <<>>) = <<"KB5031354">>
    /\ Get(superseded_by_out, "KB5026372", <<>>) = <<"KB5031354">>

\* C3: for every supersedes relation, cyclic or not, every root's stack empties and
\* compute_supersedence returns.
C3_ExpansionTerminates == <>(pc = "sup_returned")

\* C3 witness: a returned expansion over a relation with a self-loop and a cycle
\* through an installed root.
C3_Witness ==
    /\ Returned
    /\ \E a \in KbIds : Supersedes(a, a)
    /\ \E r \in installed_kbs : r \in ReachableFrom(r) /\ ~Supersedes(r, r)

\* C4: the returned logically-present set is exactly the installed set united with
\* everything reachable from an installed identifier by one or more supersedes edges.
C4_LogicalPresentIsInstalledPlusReachable ==
    Returned =>
        logical_present = installed_kbs \cup UNION {ReachableFrom(r) : r \in installed_kbs}

\* C4 witness: the chain of the example resolves to all three identifiers, and an
\* identifier that is neither installed nor superseded stays out.
C4_Witness ==
    /\ Returned
    /\ installed_kbs = {"KB5029351"}
    /\ Supersedes("KB5031354", "KB5029351") /\ Supersedes("KB5029351", "KB5026372")
    /\ logical_present = {"KB5029351", "KB5026372"}

\* C4 witness of the example in the specification.
C4_ExampleReached ==
    /\ Returned
    /\ installed_kbs = {"KB5031354"}
    /\ Supersedes("KB5031354", "KB5029351") /\ Supersedes("KB5029351", "KB5026372")
    /\ logical_present = {"KB5031354", "KB5029351", "KB5026372"}

(***************************************************************************)
(* Properties of merge_kb_entries                                          *)
(***************************************************************************)

\* A list in strictly ascending code-point order.
Ascending(list) == \A i \in 1..(Len(list) - 1) : StrLess(list[i], list[i + 1])

RecordKeys == {kb_entries[i].KB : i \in 1..Len(kb_entries)}

\* C12: once main has classified, missing = expected minus logically-present and
\* present = expected intersected with logically-present; the two lists are
\* disjoint, together they hold exactly the keys of the bulletin records, no
\* installed identifier is in missing, and each list is sorted ascending.
C12_DiffPartitionsExpected ==
    pc = "sup_done" =>
        /\ Range(missing_sorted) = expected_kbs \ logical_present
        /\ Range(present_sorted) = expected_kbs \cap logical_present
        /\ Range(missing_sorted) \cap Range(present_sorted) = {}
        /\ Range(missing_sorted) \cup Range(present_sorted) = RecordKeys
        /\ Range(missing_sorted) \cap installed_kbs = {}
        /\ Ascending(missing_sorted) /\ Ascending(present_sorted)

\* C12 witness: three records, the newest installed and superseding the oldest: two
\* identifiers are present (one only logically), one is missing.
C12_Witness ==
    /\ pc = "sup_done"
    /\ installed_kbs = {"KB5031354"}
    /\ present_sorted = <<"KB5026372", "KB5031354">>
    /\ missing_sorted = <<"KB5029351">>

NoRepeat(list) == \A i, j \in 1..Len(list) : i # j => list[i] # list[j]

NoDuplicateValues ==
    \A i \in 1..Len(merged_kb_map) :
        /\ NoRepeat(merged_kb_map[i].Months)
        /\ NoRepeat(merged_kb_map[i].Cves)
        /\ NoRepeat(merged_kb_map[i].Supersedes)

\* C8: merging the same incoming records twice and normalising gives the same index
\* (keys, Months, Cves, Supersedes, classification) as merging them once and
\* normalising, for every index the chunk loop can hold and every incoming list.
C8_MergeIdempotent ==
    pc = "merge_loop" =>
        \A incoming \in IncomingLists :
            LET once == merge_kb_entries(merged_kb_map, incoming)
                twice == merge_kb_entries(once, incoming)
            IN Normalise(twice) = Normalise(once)

\* C8 witness: a non-empty index that some incoming list really changes, by a new key
\* and by new values of an existing key.
C8_Witness ==
    /\ pc = "merge_loop"
    /\ Len(merged_kb_map) > 0
    /\ \E incoming \in IncomingLists :
        LET once == merge_kb_entries(merged_kb_map, incoming)
        IN /\ Len(once) > Len(merged_kb_map)
           /\ \E i \in 1..Len(merged_kb_map) : once[i] # merged_kb_map[i]

\* C9: after any sequence of merges from the empty index no Months, Cves or
\* Supersedes collection holds a value twice, and no step removes an entry.
C9_NoDuplicatesNoDeletion ==
    /\ []NoDuplicateValues
    /\ [][Keys(merged_kb_map) \subseteq Keys(merged_kb_map')]_vars

\* C9 witness: after the last chunk the index holds the record whose incoming lists
\* repeated a value, each value once, beside another key's record.
C9_Witness ==
    /\ chunks_done = MaxChunks
    /\ Len(merged_kb_map) >= 2
    /\ \E i \in 1..Len(merged_kb_map) :
        /\ merged_kb_map[i].KB = "KB5029351"
        /\ merged_kb_map[i].Cves = <<"CVE-2024-0001">>
        /\ merged_kb_map[i].Supersedes = <<"KB5026372">>
        /\ Range(merged_kb_map[i].Months) = {"2024-Jan", "2024-Feb"}

(***************************************************************************)
(* Identifier case                                                         *)
(***************************************************************************)

SameIdentifier(a, b) == StrUpper(a) = StrUpper(b)

\* The identifiers the run was given: record keys, superseded identifiers, inventory.
GivenIdentifiers ==
    expected_kbs \cup installed_kbs
        \cup UNION {Range(kb_entries[i].Supersedes) : i \in 1..Len(kb_entries)}

\* C10: identifiers that differ only in letter case are one identifier to the
\* resolver and to the missing/present diff: both spellings are logically present or
\* neither is, and a record whose identifier is installed under another spelling is
\* not reported missing.
C10_CaseInsensitiveIdentifiers ==
    /\ Returned =>
          \A a, b \in GivenIdentifiers :
              SameIdentifier(a, b) => (a \in logical_present <=> b \in logical_present)
    /\ pc = "sup_done" =>
          \A k \in Range(missing_sorted) :
              ~\E i \in installed_kbs : SameIdentifier(i, k)

(***************************************************************************)
(* Properties of score_candidate and choose_best_candidate                 *)
(***************************************************************************)

ScoreOf(i) == score_candidate(candidates[i], kb_id, constraints)

\* The scores choose_best_candidate keeps: the non-negative ones.
Surviving(scores) == {scores[i] : i \in {j \in DOMAIN scores : scores[j] >= 0}}

MaxOf(S) == CHOOSE m \in S : \A x \in S : x <= m

SurvivingScores == Surviving([i \in 1..Len(candidates) |-> ScoreOf(i)])

BestScore == MaxOf(SurvivingScores)

\* C5: choose_best_candidate never returns a candidate that scores below 90; a best
\* surviving score of at most 89 gives the 'Ambiguous match' rejection and no
\* candidate; a best score of 90 or more gives a candidate with that score and no
\* rejection reason.
C5_ThresholdGate ==
    pc = "sel_done" =>
        LET scores == [i \in 1..Len(candidates) |-> ScoreOf(i)]
            surviving == Surviving(scores)
        IN /\ best # <<>> => score_candidate(best[1], kb_id, constraints) >= 90
           /\ (surviving # {} /\ MaxOf(surviving) <= 89) =>
                 best = <<>> /\ StartsWith(reason, "Ambiguous match")
           /\ (surviving # {} /\ MaxOf(surviving) >= 90) =>
                 /\ best # <<>>
                 /\ \E i \in 1..Len(candidates) :
                       best[1] = candidates[i] /\ scores[i] = MaxOf(surviving)
                 /\ reason = None

\* C5 witness: two candidates, the better one scoring exactly 90, which is returned.
C5_Witness ==
    /\ pc = "sel_done"
    /\ Len(candidates) = 2
    /\ SurvivingScores = {85, 90}
    /\ best # <<>>
    /\ score_candidate(best[1], kb_id, constraints) = 90

\* The highest score below the threshold that the rules can add up to is rejected.
C5_AmbiguousReached ==
    /\ pc = "sel_done"
    /\ SurvivingScores # {} /\ BestScore = 85
    /\ best = <<>>
    /\ reason = "Ambiguous match (best score 85 below threshold)."

\* The markers of an architecture family, as they appear in a lower-cased title.
FamilyMarkers(arch) ==
    IF arch = "x64" THEN {"x64-based"}
    ELSE IF arch = "arm64" THEN {"arm64-based"}
    ELSE {"x86-based", "32-bit"}

Families == {"x64", "arm64", "x86"}

NamesOtherFamily(title, arch) ==
    LET t == StrLower(title)
    IN \E other \in Families \ {arch} : \E m \in FamilyMarkers(other) : Contains(m, t)

NamesNoFamily(title) ==
    LET t == StrLower(title)
    IN \A a \in Families : \A m \in FamilyMarkers(a) : ~Contains(m, t)

\* C6: a title that names a marker of another architecture family scores -10000
\* whatever else it holds, and the candidate is neither kept nor returned.
C6_WrongArchitectureRejected ==
    pc = "sel_done" =>
    \A i \in 1..Len(candidates) :
        NamesOtherFamily(candidates[i].title, constraints.catalog_arch) =>
            /\ ScoreOf(i) = -10000
            /\ \A k \in 1..Len(scored) : scored[k][2] # candidates[i]
            /\ best # <<candidates[i]>>

\* C6 witness: identifier, generation, own marker, display version and build all
\* match, the title also names ARM64, and the selection ends without a candidate.
C6_Witness ==
    /\ pc = "sel_done"
    /\ constraints = [windows_gen |-> "windows 11", display_version |-> "23H2",
                      build_major |-> "22631", catalog_arch |-> "x64"]
    /\ Len(candidates) = 1
    /\ candidates[1].title =
          "Update for Windows 11 Version 23H2 ARM64-based x64-based (KB5031354) (22631.2428)"
    /\ best = <<>>

WithTitle(cand, title) == [update_id |-> cand.update_id, title |-> title]

\* The text each family's own marker is added as.
OwnMarkerTexts(arch) ==
    IF arch = "x64" THEN {" for x64-based Systems"}
    ELSE IF arch = "arm64" THEN {" for ARM64-based Systems"}
    ELSE {" for x86-based Systems", " for 32-bit Systems"}

\* C7: for a title that is not hard-rejected and names no architecture marker, adding
\* the baseline's own marker raises the score by exactly 25.
C7_OwnArchitectureAdds25 ==
    pc = "sel_done" =>
    \A i \in 1..Len(candidates) :
        LET plain == ScoreOf(i)
        IN (/\ NamesNoFamily(candidates[i].title)
            /\ plain # -10000) =>
               \A m \in OwnMarkerTexts(constraints.catalog_arch) :
                   score_candidate(WithTitle(candidates[i], candidates[i].title \o m),
                                   kb_id, constraints) = plain + 25

\* C7 witness: a kept candidate without a marker, with a version penalty and a build
\* mismatch (50 + 40 - 15 - 5 = 70), that the 32-bit marker would lift to 95.
C7_Witness ==
    /\ pc = "sel_done"
    /\ constraints = [windows_gen |-> "windows 11", display_version |-> "23H2",
                      build_major |-> "22631", catalog_arch |-> "x86"]
    /\ Len(candidates) = 1
    /\ candidates[1].title = "Update for Windows 11 Version 22H2 (KB5031354) (19045.3570)"
    /\ scored = << <<70, candidates[1]>> >>
    /\ score_candidate(WithTitle(candidates[1], candidates[1].title \o " for 32-bit Systems"),
                       kb_id, constraints) = 95

\* The score of the candidate a printed line is about.
LineScore(line) ==
    score_candidate([update_id |-> line.update_id, title |-> line.title], kb_id, constraints)

\* C13: every rejection (no match, or ambiguous match) carries a reason and the full
\* scored, ranked candidate list: every candidate is listed, each with its score, in
\* rank order (highest score first).
C13_RejectionCarriesRankedList ==
    pc = "sel_rejected" =>
        /\ printed_reason # None
        /\ Len(printed_candidates) = Len(candidates)
        /\ \A p \in 1..Len(printed_candidates) :
              /\ "score" \in DOMAIN printed_candidates[p]
              /\ printed_candidates[p].score = LineScore(printed_candidates[p])
        /\ \A p, q \in 1..Len(printed_candidates) :
              p < q => LineScore(printed_candidates[p]) >= LineScore(printed_candidates[q])

\* The rejection reached with two candidates that both survive scoring, the lower
\* score printed first.
C13_UnrankedRejectionReached ==
    /\ pc = "sel_rejected"
    /\ Len(printed_candidates) = 2
    /\ LineScore(printed_candidates[1]) = 30
    /\ LineScore(printed_candidates[2]) = 50
    /\ printed_reason = "Ambiguous match (best score 50 below threshold)."

OtherGeneration(gen) == IF gen = "windows 10" THEN "windows 11" ELSE "windows 10"

\* C15: with a known baseline generation, a title that contains the other supported
\* generation's tag scores -10000, also when it contains the baseline's own tag.
C15_CrossGenerationRejected ==
    pc = "sel_done" =>
        \A i \in 1..Len(candidates) :
            (/\ constraints.windows_gen \in {"windows 10", "windows 11"}
             /\ Contains(OtherGeneration(constraints.windows_gen),
                         StrLower(candidates[i].title))) =>
                /\ ScoreOf(i) = -10000
                /\ best # <<candidates[i]>>

\* C15 witness: the title holds both generation tags, the identifier, the own
\* architecture marker, the display version and the build, and is not selected.
C15_Witness ==
    /\ pc = "sel_done"
    /\ constraints = [windows_gen |-> "windows 11", display_version |-> "23H2",
                      build_major |-> "22631", catalog_arch |-> "x64"]
    /\ Len(candidates) = 1
    /\ candidates[1].title =
          "Update for Windows 10 and Windows 11 Version 23H2 x64-based (KB5031354) (22631.2428)"
    /\ best = <<>>
    /\ reason = "No candidate matched baseline constraints."

\* C16: when choose_best_candidate returns a candidate, it is the earliest candidate
\* of the input list among those with the highest surviving score.
C16_TieBreakFirstSeen ==
    (pc = "sel_done" /\ best # <<>>) =>
        LET scores == [i \in 1..Len(candidates) |-> ScoreOf(i)]
            top == MaxOf(Surviving(scores))
            first == CHOOSE i \in 1..Len(candidates) :
                        /\ scores[i] = top
                        /\ \A j \in 1..(i - 1) : scores[j] # top
        IN best[1] = candidates[first]

\* C16 witness: two different titles that both score 90; the first one is returned.
C16_Witness ==
    /\ pc = "sel_done"
    /\ Len(candidates) = 2
    /\ candidates[1].title = "Update for Windows 11 Version 22H2 (KB5031354) (19045.3570)"
    /\ candidates[2].title = "Update for Windows 11 (KB5031354)"
    /\ ScoreOf(1) = 90 /\ ScoreOf(2) = 90
    /\ best = <<candidates[1]>>

\* The same tie in the other input order: again the first one is returned.
C16_OtherOrderReached ==
    /\ pc = "sel_done"
    /\ Len(candidates) = 2
    /\ candidates[1].title = "Update for Windows 11 (KB5031354)"
    /\ candidates[2].title = "Update for Windows 11 Version 22H2 (KB5031354) (19045.3570)"
    /\ ScoreOf(1) = 90 /\ ScoreOf(2) = 90
    /\ best = <<candidates[1]>>

\* Calendar months counted from year 0.
MonthIndex(dt) == dt[1] * 12 + dt[2] - 1

\* The builder has returned a list (the baseline is elevated and has a start month).
MonthsReturned == pc \in {"months_returned", "scan_loop", "scan_exit", "scan_saved", "scan_failed"}

\* The start and end months of the request: the end is MsrcLatestMonthId, or the
\* current month when that is absent.
RequestedStart == MonthIndex(strptime(baseline.LcuMonthId))
RequestedEnd ==
    IF Falsy(baseline.MsrcLatestMonthId) THEN MonthIndex(now)
    ELSE MonthIndex(strptime(baseline.MsrcLatestMonthId))

\* C11: for an elevated baseline with a start month the returned list is non-empty,
\* holds consecutive calendar months in chronological order, begins at the start month
\* (at the end month, as its only element, when start is after end), ends at the end
\* month unless the cap cuts it, and never holds more months than the cap.
C11_MonthRange ==
    MonthsReturned =>
        LET first == IF RequestedStart > RequestedEnd THEN RequestedEnd ELSE RequestedStart
            span == RequestedEnd - first + 1
        IN /\ Len(month_ids) >= 1
           /\ Len(month_ids) <= max_months
           /\ \A i \in 1..Len(month_ids) :
                 /\ month_ids[i] = strftime(strptime(month_ids[i]))
                 /\ MonthIndex(strptime(month_ids[i])) = first + i - 1
           /\ RequestedStart > RequestedEnd => Len(month_ids) = 1
           /\ IF span <= max_months
              THEN MonthIndex(strptime(month_ids[Len(month_ids)])) = RequestedEnd
              ELSE Len(month_ids) = max_months

\* C11 witness: 2024-Jan to 2024-Mar gives exactly the three months.
C11_Witness ==
    /\ pc = "months_returned"
    /\ baseline = [IsAdmin |-> TRUE, LcuMonthId |-> "2024-Jan", MsrcLatestMonthId |-> "2024-Mar"]
    /\ max_months = 3
    /\ month_ids = <<"2024-Jan", "2024-Feb", "2024-Mar">>

\* The cap cuts a range of eight months that crosses a year's end.
C11_CapCutReached ==
    /\ pc = "months_returned"
    /\ baseline.LcuMonthId = "2023-Aug" /\ baseline.MsrcLatestMonthId = "2024-Mar"
    /\ max_months = 6
    /\ month_ids = <<"2023-Aug", "2023-Sep", "2023-Oct", "2023-Nov", "2023-Dec", "2024-Jan">>

\* A start after the end, the end taken from the clock: the current month alone.
C11_ClampReached ==
    /\ pc = "months_returned"
    /\ baseline.LcuMonthId = "2024-Apr" /\ baseline.MsrcLatestMonthId = None
    /\ now = <<2024, 2, 1>>
    /\ max_months = 2
    /\ month_ids = <<"2024-Feb">>

\* C14: build_month_ids_from_lcu fails with one kind of error when the baseline is not
\* elevated and with a distinct kind when the start month is absent; the elevation is
\* checked first, and no month list is produced in either case.  The kind of a
\* failure is the type of the exception raised.
C14_DistinctErrorKinds ==
    pc = "months_failed" =>
        /\ month_ids = <<>> /\ month_chunks = <<>>
        /\ ~baseline.IsAdmin =>
              error[1].message = "Baseline collected without administrative privileges. LCU detection requires elevation."
        /\ (baseline.IsAdmin /\ Falsy(baseline.LcuMonthId)) =>
              error[1].message = "Baseline did not provide LcuMonthId."
        /\ \A b \in Baselines :
              (MonthsFailure(b) # <<>> /\ MonthsFailure(b)[1].message # error[1].message) =>
                  MonthsFailure(b)[1].type # error[1].type

\* What does hold of the two failures: each is raised before any month is produced,
\* the elevation first, and they differ in their message only.
C14_FailuresDifferInMessageOnly ==
    pc = "months_failed" =>
        /\ month_ids = <<>> /\ month_chunks = <<>>
        /\ error[1].type = "RuntimeError"
        /\ ~baseline.IsAdmin =>
              error[1].message = "Baseline collected without administrative privileges. LCU detection requires elevation."
        /\ (baseline.IsAdmin /\ Falsy(baseline.LcuMonthId)) =>
              error[1].message = "Baseline did not provide LcuMonthId."

RECURSIVE Flatten(_)
Flatten(lists) == IF Len(lists) = 0 THEN <<>> ELSE Head(lists) \o Flatten(Tail(lists))

\* C17: the chunks hold at most 3 months each and, put end to end, are the requested
\* months; they are queried strictly in list order; a chunk whose answer holds no
\* records leaves the merge index as it is and does not end the run; and when the loop
\* is left without an exception every chunk has been queried.
C17_ChunksInOrderEmptySkipped ==
    /\ [](pc \in {"scan_loop", "scan_exit", "scan_saved", "scan_failed"} =>
            /\ \A k \in 1..Len(month_chunks) : Len(month_chunks[k]) \in 1..3
            /\ Flatten(month_chunks) = month_ids
            /\ NoRepeat(month_ids)
            /\ Len(queried) <= Len(month_chunks)
            /\ queried = SubSeq(month_chunks, 1, Len(queried)))
    /\ [](pc \in {"scan_exit", "scan_saved"} => queried = month_chunks)
    /\ [][(Len(queried') = Len(queried) + 1 /\ msrc_data' = << <<>> >>) =>
            (/\ merged_kb_map' = merged_kb_map
             /\ pc' = "scan_loop"
             /\ exit_status' = <<>>)]_vars

\* C17 witness: seven months in three chunks; the first chunk was merged, the second
\* gave no records and left the index alone, the third is still to be queried.
C17_Witness ==
    /\ pc = "scan_loop"
    /\ month_chunks = << <<"2023-Aug", "2023-Sep", "2023-Oct">>,
                         <<"2023-Nov", "2023-Dec", "2024-Jan">>,
                         <<"2024-Feb">> >>
    /\ queried = SubSeq(month_chunks, 1, 2)
    /\ msrc_data = << <<>> >>
    /\ Keys(merged_kb_map) = {"KB5029351"}

\* The same run at its end: an empty first chunk, then two merged ones.
C17_LaterChunksMergedReached ==
    /\ pc = "scan_saved"
    /\ Len(month_chunks) = 3
    /\ queried = month_chunks
    /\ Keys(merged_kb_map) = {"KB5029351", "KB5031354"}

\* C18: when every chunk gives no records (the index is empty after the loop), the
\* scan ends in an error outcome, not in a successful completion.
C18_AllEmptyIsErrorOutcome ==
    pc = "scan_exit" => (exit_status # <<0>> /\ error # <<>>)

\* What the code does: with every answer empty the process ends with status 0 and no
\* exception, the status a completed scan ends with.
C18_AllEmptyExitsZero ==
    /\ pc = "scan_exit" => (exit_status = <<0>> /\ error = <<>> /\ merged_kb_map = <<>>)
    /\ pc = "scan_saved" => exit_status = <<0>>

====
